---- MODULE Spec2Model ----
(***************************************************************************)
(* A model of context_song_marc.py: the command-line run (__main__), the   *)
(* feature extraction of analyze_song and the report built by              *)
(* generate_timing_prompt.                                                 *)
(*                                                                         *)
(* Representation.                                                         *)
(*  - A time is kept as a whole number of samples; the time in seconds is  *)
(*    that number divided by the sample rate sr.  frames_to_time and       *)
(*    times_like map frame i to i * HopLength samples, get_duration maps a *)
(*    buffer to its length.  Comparisons of times are therefore exact.     *)
(*  - An RMS energy is kept in units of 1 / RmsScale of full scale, the    *)
(*    square root rounded down to that resolution.                         *)
(*  - Python sequences are 0-based; At(s, i) reads index i of a sequence.  *)
(*  - The librosa calls are modelled by what the library documents: the    *)
(*    frame geometry (hop, centred frames, zero padding), the shape of the *)
(*    result of segment.agglomerative (k left boundaries, the first one 0, *)
(*    an error when there are fewer frames than k), and find_peaks of      *)
(*    scipy step by step.  The beat tracker and the onset detector are     *)
(*    deterministic functions of the buffer; their numerical content is    *)
(*    replaced by a simple stand-in (BeatTrack, OnsetFrames).              *)
(***************************************************************************)
EXTENDS Integers, Sequences, FiniteSets, TLC

VARIABLES pc, args, y, finite, sr, ran, tempo, beat_times, onset_times,
          segment_times, rms, rms_times, features, prompt, peaks,
          steps, stdout, file, figure, reported

vars == <<pc, args, y, finite, sr, ran, tempo, beat_times, onset_times,
          segment_times, rms, rms_times, features, prompt, peaks,
          steps, stdout, file, figure, reported>>

(***************************************************************************)
(* Sizes.                                                                  *)
(***************************************************************************)
\* hop between frames, in samples (librosa's default is 512; scaled down)
HopLength == 4
\* samples per frame: four hops, as librosa's 2048 / 512
FrameLength == 4 * HopLength
\* resolution of an energy value
RmsScale == 100
\* frames between two beats of the stand-in beat tracker
BeatPeriod == 3
\* librosa.segment.agglomerative(chroma, 10)
SegmentCount == 10
\* height = np.mean(rms) * 1.2, as the fraction ThresholdNum / ThresholdDen
ThresholdNum == 12
ThresholdDen == 10
\* distance = sr // 10
DistanceDivisor == 10

\* the value of prompt, stdout and file before they are set
None == [none |-> TRUE]

(***************************************************************************)
(* Helpers on sequences.                                                   *)
(***************************************************************************)
At(s, i) == s[i + 1]

Abs(n) == IF n < 0 THEN -n ELSE n

Min(a, b) == IF a < b THEN a ELSE b

RECURSIVE Sum(_)
Sum(s) == IF s = <<>> THEN 0 ELSE Head(s) + Sum(Tail(s))

RECURSIVE SortedSeq(_)
SortedSeq(S) ==
    IF S = {} THEN <<>>
    ELSE LET m == CHOOSE a \in S : \A b \in S : a <= b
         IN  <<m>> \o SortedSeq(S \ {m})

Isqrt(x) == CHOOSE r \in 0..x : r * r <= x /\ (r + 1) * (r + 1) > x

StrictlyIncreasing(s) == \A i \in 1..(Len(s) - 1) : s[i] < s[i + 1]

(***************************************************************************)
(* Frame geometry (librosa).                                               *)
(***************************************************************************)
\* number of frames of a centred framing of n samples
NumFrames(n) == 1 + (n \div HopLength)

\* librosa.frames_to_time(frames, sr=sr): frame i is at i * hop samples
FramesToTime(frames) == [i \in 1..Len(frames) |-> frames[i] * HopLength]

\* librosa.times_like(rms, sr=sr): the time of every frame of rms
TimesLike(x) == [i \in 1..Len(x) |-> (i - 1) * HopLength]

\* librosa.get_duration(y=y, sr=sr), in samples
GetDuration(buf) == Len(buf)

\* sample j (0-based) of the buffer padded with zeros on both sides
Sample(buf, j) == IF j >= 0 /\ j < Len(buf) THEN buf[j + 1] ELSE 0

RECURSIVE SumSq(_, _, _)
SumSq(buf, lo, hi) ==
    IF lo > hi THEN 0
    ELSE Sample(buf, lo) * Sample(buf, lo) + SumSq(buf, lo + 1, hi)

\* energy of the frame centred on sample i * hop
FrameSumSq(buf, i) ==
    SumSq(buf, i * HopLength - (FrameLength \div 2),
               i * HopLength + (FrameLength \div 2) - 1)

\* librosa.feature.rms(y=y)[0]: root of the mean square of every frame
FeatureRms(buf) ==
    [i \in 1..NumFrames(Len(buf)) |->
        Isqrt((RmsScale * RmsScale * FrameSumSq(buf, i - 1)) \div FrameLength)]

Silent(buf) == \A j \in 1..Len(buf) : buf[j] = 0

\* librosa.beat.beat_track(y=y, sr=sr): (tempo, beat_frames); no onset
\* strength at all gives tempo 0 and no beat, otherwise the stand-in puts a
\* beat every BeatPeriod frames, the last one before the last frame
BeatTrack(buf, rate) ==
    IF Silent(buf)
    THEN [tempo |-> 0, frames |-> <<>>]
    ELSE [tempo  |-> (60 * rate) \div (HopLength * BeatPeriod),
          frames |-> [i \in 1..((NumFrames(Len(buf)) - 2) \div BeatPeriod)
                        |-> i * BeatPeriod]]

\* onset_strength + onset_detect: the frames at which the energy rises
OnsetFrames(buf) ==
    SortedSeq({i \in 1..(NumFrames(Len(buf)) - 1) :
                  FrameSumSq(buf, i) > FrameSumSq(buf, i - 1)})

\* the results librosa.segment.agglomerative(chroma, k) can give on nf
\* frames: k left boundaries, strictly increasing, the first one frame 0
Boundaries(nf, k) ==
    {<<0>> \o SortedSeq(S) : S \in {T \in SUBSET (1..(nf - 1)) :
                                        Cardinality(T) = k - 1}}

(***************************************************************************)
(* scipy.signal.find_peaks(x, height=h, distance=d).                       *)
(***************************************************************************)
\* _local_maxima_1d: the end of the plateau that starts at i
RECURSIVE PlateauEnd(_, _, _)
PlateauEnd(x, i, ahead) ==
    IF ahead < Len(x) - 1 /\ At(x, ahead) = At(x, i)
    THEN PlateauEnd(x, i, ahead + 1)
    ELSE ahead

\* _local_maxima_1d: the midpoints of the plateaus that are strictly higher
\* than both neighbours; the first and the last sample are never a peak
RECURSIVE LocalMaximaFrom(_, _)
LocalMaximaFrom(x, i) ==
    IF i >= Len(x) - 1 THEN <<>>
    ELSE IF At(x, i - 1) < At(x, i)
         THEN LET ahead == PlateauEnd(x, i, i + 1)
              IN  IF At(x, ahead) < At(x, i)
                  THEN <<(i + ahead - 1) \div 2>> \o LocalMaximaFrom(x, ahead + 1)
                  ELSE LocalMaximaFrom(x, i + 1)
         ELSE LocalMaximaFrom(x, i + 1)

\* a variant that takes every inner sample not lower than its neighbours
LocalMaximaFlat(x) ==
    SortedSeq({i \in 1..(Len(x) - 2) :
                  At(x, i - 1) <= At(x, i) /\ At(x, i + 1) <= At(x, i)})

LocalMaxima(x) == LocalMaximaFrom(x, 1)

\* height = np.mean(x) * 1.2 <= x[p], without the division
ReachesHeight(x, p) ==
    ThresholdDen * Len(x) * At(x, p) >= ThresholdNum * Sum(x)

\* a variant without the height condition
SelectByHeightNone(x, cand) == cand

SelectByHeight(x, cand) == SelectSeq(cand, LAMBDA p : ReachesHeight(x, p))

\* _select_by_peak_distance: the positions of cand that stay, taken from the
\* highest peak down (of two equal peaks the later one first); a kept peak
\* removes every peak closer to it than d
RECURSIVE KeepByDistance(_, _, _, _, _)
KeepByDistance(x, cand, d, todo, keep) ==
    IF todo = {} THEN keep
    ELSE LET j == CHOOSE a \in todo : \A b \in todo :
                      \/ At(x, cand[a]) > At(x, cand[b])
                      \/ At(x, cand[a]) = At(x, cand[b]) /\ a >= b
         IN  IF j \notin keep
             THEN KeepByDistance(x, cand, d, todo \ {j}, keep)
             ELSE KeepByDistance(x, cand, d, todo \ {j},
                      {k \in keep : k = j \/ Abs(cand[k] - cand[j]) >= d})

SelectByDistance(x, cand, d) ==
    LET keep == KeepByDistance(x, cand, d, 1..Len(cand), 1..Len(cand))
    IN  SortedSeq({cand[k] : k \in keep})

\* the minimum distance handed to find_peaks: features['sr'] // 10
PeakDistance(rate) == rate \div DistanceDivisor

\* peaks, _ = find_peaks(rms, height=np.mean(rms) * 1.2, distance=sr // 10)
FindPeaks(x, rate) ==
    SelectByDistance(x, SelectByHeight(x, LocalMaxima(x)), PeakDistance(rate))

(***************************************************************************)
(* Formatting.                                                             *)
(***************************************************************************)
\* f"{time:.2f}" of the time t / rate: hundredths of a second, rounded to
\* the nearest, a tie to the even one
Fmt2(t, rate) ==
    LET q == (100 * t) \div rate
        r == (100 * t) % rate
    IN  IF 2 * r < rate THEN q
        ELSE IF 2 * r > rate THEN q + 1
        ELSE IF q % 2 = 0 THEN q ELSE q + 1

\* f"{rms_value:.6f}": millionths of full scale
Fmt6(v) == (1000000 * v) \div RmsScale

(***************************************************************************)
(* generate_timing_prompt(features).                                       *)
(***************************************************************************)
\* a variant that lists every entry of segment_times as a section change
MarkerLineNoStart(f, i) ==
    [kind |-> "Section change at", at |-> Fmt2(At(f.segment_times, i), f.sr)]

\* the line of entry i (0-based) of segment_times
MarkerLine(f, i) ==
    IF i = 0
    THEN [kind |-> "Start", at |-> 0]
    ELSE [kind |-> "Section change at",
          at |-> Fmt2(At(f.segment_times, i), f.sr)]

Markers(f) == [i \in 1..Len(f.segment_times) |-> MarkerLine(f, i - 1)]

\* the peaks that pass "if peak < len(rms_times)", as lines
PeakLines(f, pk) ==
    LET shown == SelectSeq(pk, LAMBDA p : p < Len(f.rms_times))
    IN  [i \in 1..Len(shown) |->
            [kind |-> "Energy peak at", at |-> Fmt2(At(f.rms_times, shown[i]), f.sr)]]

\* duration_seconds = int(features['duration']) + 1
DurationSeconds(f) == (f.duration \div f.sr) + 1

\* np.argmin(np.abs(rms_timestamps - second)): the first index of the least
\* distance
RECURSIVE ArgminFrom(_, _, _, _)
ArgminFrom(f, second, i, best) ==
    IF i >= Len(f.rms_times) THEN best
    ELSE IF Abs(At(f.rms_times, i) - second * f.sr)
              < Abs(At(f.rms_times, best) - second * f.sr)
         THEN ArgminFrom(f, second, i + 1, i)
         ELSE ArgminFrom(f, second, i + 1, best)

\* a variant that keeps the last index of the least distance
RECURSIVE ArgminLastFrom(_, _, _, _)
ArgminLastFrom(f, second, i, best) ==
    IF i >= Len(f.rms_times) THEN best
    ELSE IF Abs(At(f.rms_times, i) - second * f.sr)
              <= Abs(At(f.rms_times, best) - second * f.sr)
         THEN ArgminLastFrom(f, second, i + 1, i)
         ELSE ArgminLastFrom(f, second, i + 1, best)

ClosestIdxLast(f, second) == ArgminLastFrom(f, second, 1, 0)

ClosestIdx(f, second) == ArgminFrom(f, second, 1, 0)

SecondLines(f) ==
    [i \in 1..DurationSeconds(f) |->
        [second |-> i - 1,
         energy |-> Fmt6(At(f.rms, ClosestIdx(f, i - 1)))]]

TimingPrompt(f, pk) ==
    [tempo    |-> 10 * f.tempo,
     minutes  |-> (f.duration \div f.sr) \div 60,
     seconds  |-> ((f.duration % (60 * f.sr)) + (f.sr \div 2)) \div f.sr,
     beats    |-> Len(f.beat_times),
     sections |-> Len(f.segment_times),
     markers  |-> Markers(f),
     peaks    |-> PeakLines(f, pk),
     energy   |-> SecondLines(f)]

(***************************************************************************)
(* The inputs of a run: the content of the audio file.                     *)
(***************************************************************************)
\* the sample rates of the files
SampleRates == {6, 18, 30}

\* a buffer of Len(blocks) * HopLength samples, each hop at one amplitude
BlockBuffer(blocks) ==
    [j \in 1..(Len(blocks) * HopLength) |-> blocks[((j - 1) \div HopLength) + 1]]

\* buffers of SegmentCount frames, every hop silent (0) or at full scale (1)
MainBuffers == {BlockBuffer(b) : b \in [1..(SegmentCount - 1) -> {0, 1}]}

\* buffers of SegmentCount + 1 frames, silent or at full scale throughout
LongBuffers == {BlockBuffer([i \in 1..SegmentCount |-> a]) : a \in {0, 1}}

\* buffers too short for SegmentCount frames; the empty buffer is one
ShortBuffers == {<<>>, <<1, 0, 1>>}

Inputs ==
    [y : MainBuffers \cup LongBuffers, finite : {TRUE}, sr : SampleRates]
    \cup [y : ShortBuffers, finite : {TRUE}, sr : {18}]
    \cup [y : {<<0, 0, 0>>}, finite : {FALSE}, sr : {18}]

\* an input the data model of the specification excludes
InvalidInput == y = <<>> \/ ~finite \/ sr <= 0

(***************************************************************************)
(* State.                                                                  *)
(***************************************************************************)
NoFeatures ==
    [tempo |-> 0, beat_times |-> <<>>, onset_times |-> <<>>,
     segment_times |-> <<>>, rms |-> <<>>, rms_times |-> <<>>,
     duration |-> 0, sr |-> 0, y |-> <<>>]

Blank ==
    /\ y = <<>> /\ finite = TRUE /\ sr = 0
    /\ ran = <<>>
    /\ tempo = 0 /\ beat_times = <<>> /\ onset_times = <<>>
    /\ segment_times = <<>> /\ rms = <<>> /\ rms_times = <<>>
    /\ prompt = None /\ peaks = <<>>
    /\ steps = <<>> /\ stdout = None /\ file = None
    /\ figure = FALSE /\ reported = FALSE

\* after parser.parse_args(), at the try
Init ==
    /\ pc = "load"
    /\ args \in [save : BOOLEAN, visualize : BOOLEAN]
    /\ features = NoFeatures
    /\ Blank

Ok(name) == [name |-> name, outcome |-> "ok"]
Raised(name) == [name |-> name, outcome |-> "raised"]

\* a variant in which the exception ends the run without the except clause
RaiseUnhandled(name) ==
    /\ pc' = "exit"
    /\ steps' = Append(steps, Raised(name))

\* an exception leaves the try block for the except clause
Raise(name) ==
    /\ pc' = "except"
    /\ steps' = Append(steps, Raised(name))

(***************************************************************************)
(* analyze_song(file_path).                                                *)
(***************************************************************************)
\* y, sr = librosa.load(file_path, sr=None)
Load ==
    /\ pc = "load"
    /\ \/ /\ \E in \in Inputs : y' = in.y /\ finite' = in.finite /\ sr' = in.sr
          /\ pc' = "beat_track_tempo"
          /\ UNCHANGED steps
       \/ /\ Raise("analyze_song")
          /\ UNCHANGED <<y, finite, sr>>
    /\ UNCHANGED <<args, ran, tempo, beat_times, onset_times, segment_times,
                   rms, rms_times, features, prompt, peaks, stdout, file,
                   figure, reported>>

\* a buffer librosa may refuse: it refuses a buffer that is not finite
\* everywhere, and may fail on an empty one
MayRefuse == ~finite \/ y = <<>>
MustRefuse == ~finite

\* tempo, _ = librosa.beat.beat_track(y=y, sr=sr)
BeatTrackTempo ==
    /\ pc = "beat_track_tempo"
    /\ ran' = Append(ran, "beat_track")
    /\ \/ /\ ~MustRefuse
          /\ tempo' = BeatTrack(y, sr).tempo
          /\ pc' = "beat_track_beats"
          /\ UNCHANGED steps
       \/ /\ MayRefuse
          /\ Raise("analyze_song")
          /\ UNCHANGED tempo
    /\ UNCHANGED <<args, y, finite, sr, beat_times, onset_times, segment_times,
                   rms, rms_times, features, prompt, peaks, stdout, file,
                   figure, reported>>

\* _, beat_frames = librosa.beat.beat_track(y=y, sr=sr)
\* beat_times = librosa.frames_to_time(beat_frames, sr=sr)
BeatTrackBeats ==
    /\ pc = "beat_track_beats"
    /\ ran' = Append(ran, "beat_track")
    /\ \/ /\ ~MustRefuse
          /\ beat_times' = FramesToTime(BeatTrack(y, sr).frames)
          /\ pc' = "onset"
          /\ UNCHANGED steps
       \/ /\ MayRefuse
          /\ Raise("analyze_song")
          /\ UNCHANGED beat_times
    /\ UNCHANGED <<args, y, finite, sr, tempo, onset_times, segment_times,
                   rms, rms_times, features, prompt, peaks, stdout, file,
                   figure, reported>>

\* onset_env = librosa.onset.onset_strength(...); onset_frames =
\* librosa.onset.onset_detect(...); onset_times = frames_to_time(...)
OnsetDetect ==
    /\ pc = "onset"
    /\ ran' = Append(ran, "onset_detect")
    /\ \/ /\ ~MustRefuse
          /\ onset_times' = FramesToTime(OnsetFrames(y))
          /\ pc' = "segment"
          /\ UNCHANGED steps
       \/ /\ MayRefuse
          /\ Raise("analyze_song")
          /\ UNCHANGED onset_times
    /\ UNCHANGED <<args, y, finite, sr, tempo, beat_times, segment_times,
                   rms, rms_times, features, prompt, peaks, stdout, file,
                   figure, reported>>

\* chroma = librosa.feature.chroma_cqt(y=y, sr=sr)
\* bounds = librosa.segment.agglomerative(chroma, 10)
\* segment_times = librosa.frames_to_time(bounds, sr=sr)
Segment ==
    /\ pc = "segment"
    /\ ran' = Append(ran, "agglomerative")
    /\ \/ /\ NumFrames(Len(y)) >= SegmentCount
          /\ \E bounds \in Boundaries(NumFrames(Len(y)), SegmentCount) :
                 segment_times' = FramesToTime(bounds)
          /\ pc' = "rms"
          /\ UNCHANGED steps
       \/ /\ NumFrames(Len(y)) < SegmentCount
          /\ Raise("analyze_song")
          /\ UNCHANGED segment_times
    /\ UNCHANGED <<args, y, finite, sr, tempo, beat_times, onset_times,
                   rms, rms_times, features, prompt, peaks, stdout, file,
                   figure, reported>>

\* rms = librosa.feature.rms(y=y)[0]; rms_times = librosa.times_like(rms, sr=sr)
Loudness ==
    /\ pc = "rms"
    /\ ran' = Append(ran, "rms")
    /\ rms' = FeatureRms(y)
    /\ rms_times' = TimesLike(FeatureRms(y))
    /\ pc' = "return"
    /\ UNCHANGED <<args, y, finite, sr, tempo, beat_times, onset_times,
                   segment_times, features, prompt, peaks, steps, stdout,
                   file, figure, reported>>

\* duration = librosa.get_duration(y=y, sr=sr); return {...}
Return ==
    /\ pc = "return"
    /\ features' = [tempo |-> tempo, beat_times |-> beat_times,
                    onset_times |-> onset_times,
                    segment_times |-> segment_times,
                    rms |-> rms, rms_times |-> rms_times,
                    duration |-> GetDuration(y), sr |-> sr, y |-> y]
    /\ steps' = Append(steps, Ok("analyze_song"))
    /\ pc' = "generate"
    /\ UNCHANGED <<args, y, finite, sr, ran, tempo, beat_times, onset_times,
                   segment_times, rms, rms_times, prompt, peaks, stdout,
                   file, figure, reported>>

(***************************************************************************)
(* __main__: the steps after analyze_song.                                 *)
(***************************************************************************)
\* prompt = generate_timing_prompt(features); find_peaks raises a ValueError
\* for a distance below 1
GenerateTimingPrompt ==
    /\ pc = "generate"
    /\ \/ /\ PeakDistance(features.sr) >= 1
          /\ peaks' = FindPeaks(features.rms, features.sr)
          /\ prompt' = TimingPrompt(features,
                                    FindPeaks(features.rms, features.sr))
          /\ steps' = Append(steps, Ok("generate_timing_prompt"))
          /\ pc' = "print"
       \/ /\ PeakDistance(features.sr) < 1
          /\ Raise("generate_timing_prompt")
          /\ UNCHANGED <<peaks, prompt>>
    /\ UNCHANGED <<args, y, finite, sr, ran, tempo, beat_times, onset_times,
                   segment_times, rms, rms_times, features, stdout, file,
                   figure, reported>>

\* print("\n=== SONG TIMING ANALYSIS ===\n"); print(prompt)
PrintPrompt ==
    /\ pc = "print"
    /\ stdout' = prompt
    /\ steps' = Append(steps, Ok("print"))
    /\ pc' = "save"
    /\ UNCHANGED <<args, y, finite, sr, ran, tempo, beat_times, onset_times,
                   segment_times, rms, rms_times, features, prompt, peaks,
                   file, figure, reported>>

\* if args.save: save_prompt_to_file(prompt, args.file_path); opening or
\* writing the file can fail
Save ==
    /\ pc = "save"
    /\ \/ /\ args.save
          /\ file' = prompt
          /\ steps' = Append(steps, Ok("save_prompt_to_file"))
          /\ pc' = "visualize"
       \/ /\ args.save
          /\ Raise("save_prompt_to_file")
          /\ UNCHANGED file
       \/ /\ ~args.save
          /\ pc' = "visualize"
          /\ UNCHANGED <<file, steps>>
    /\ UNCHANGED <<args, y, finite, sr, ran, tempo, beat_times, onset_times,
                   segment_times, rms, rms_times, features, prompt, peaks,
                   stdout, figure, reported>>

\* if args.visualize: visualize_song(features, ...); plotting can fail
Visualize ==
    /\ pc = "visualize"
    /\ \/ /\ args.visualize
          /\ figure' = TRUE
          /\ steps' = Append(steps, Ok("visualize_song"))
          /\ pc' = "exit"
       \/ /\ args.visualize
          /\ Raise("visualize_song")
          /\ UNCHANGED figure
       \/ /\ ~args.visualize
          /\ pc' = "exit"
          /\ UNCHANGED <<figure, steps>>
    /\ UNCHANGED <<args, y, finite, sr, ran, tempo, beat_times, onset_times,
                   segment_times, rms, rms_times, features, prompt, peaks,
                   stdout, file, reported>>

\* except Exception as e: print(...); traceback.print_exc()
Except ==
    /\ pc = "except"
    /\ reported' = TRUE
    /\ pc' = "exit"
    /\ UNCHANGED <<args, y, finite, sr, ran, tempo, beat_times, onset_times,
                   segment_times, rms, rms_times, features, prompt, peaks,
                   steps, stdout, file, figure>>

Next ==
    \/ Load
    \/ BeatTrackTempo
    \/ BeatTrackBeats
    \/ OnsetDetect
    \/ Segment
    \/ Loudness
    \/ Return
    \/ GenerateTimingPrompt
    \/ PrintPrompt
    \/ Save
    \/ Visualize
    \/ Except

Spec == Init /\ [][Next]_vars

(***************************************************************************)
(* generate_timing_prompt on its own: the function applied to feature      *)
(* dictionaries that analyze_song need not have built.                     *)
(***************************************************************************)
\* segment_times of up to MaxSegments entries, in any order
MaxSegments == 3
SegmentTimeValues == {0, HopLength, 2 * HopLength}
SegmentTimeSeqs ==
    UNION {[1..n -> SegmentTimeValues] : n \in 0..MaxSegments}

RmsSeries == {<<0, 0, 0>>, <<0, 50, 0>>, <<50, 100, 50, 100, 50>>}

PromptFeatures ==
    {[tempo |-> 0, beat_times |-> <<>>, onset_times |-> <<>>,
      segment_times |-> st, rms |-> r, rms_times |-> TimesLike(r),
      duration |-> d, sr |-> rate, y |-> <<>>] :
        st \in SegmentTimeSeqs, r \in RmsSeries,
        d \in {0, 18, 20}, rate \in {6, 18}}

InitPrompt ==
    /\ pc = "generate"
    /\ args = [save |-> FALSE, visualize |-> FALSE]
    /\ features \in PromptFeatures
    /\ Blank

NextPrompt == GenerateTimingPrompt

SpecPrompt == InitPrompt /\ [][NextPrompt]_vars

(***************************************************************************)
(* Properties.                                                             *)
(***************************************************************************)
Generated == prompt # None
Analyzed == features # NoFeatures

CeilDiv(a, b) == (a + b - 1) \div b

\* distance of frame j from second s, in samples
Dist(j, s) == Abs(At(features.rms_times, j) - s * features.sr)

FrameIdx == 0..(Len(features.rms) - 1)

StepNames == [i \in 1..Len(steps) |-> steps[i].name]

Count(s, v) == Cardinality({i \in 1..Len(s) : s[i] = v})

\* C1: the per-second report has exactly one entry for each whole second s
\* with 0 <= s < ceil(duration), in order, and no other; a duration of D
\* whole seconds gives the D entries 0..D-1.
C1_OneEntryPerSecondBelowCeil ==
    Generated =>
        /\ Len(prompt.energy) = CeilDiv(features.duration, features.sr)
        /\ \A i \in 1..Len(prompt.energy) : prompt.energy[i].second = i - 1

\* C2: the energy reported for a second s is the RMS value of the frame whose
\* time is closest to s, and of the frames equally close, of the earliest.
C2_NearestFrameEarliestOnTie ==
    Generated =>
        \A i \in 1..Len(prompt.energy) :
            LET s == prompt.energy[i].second
            IN  \E idx \in FrameIdx :
                    /\ \A j \in FrameIdx : Dist(idx, s) <= Dist(j, s)
                    /\ \A j \in FrameIdx : j < idx => Dist(j, s) > Dist(idx, s)
                    /\ prompt.energy[i].energy = Fmt6(At(features.rms, idx))

\* C2 witness: a reported second lies midway between two frames of different
\* energy, no frame being closer.
C2_TieReported ==
    /\ Generated
    /\ \E i \in 1..Len(prompt.energy) : \E j \in FrameIdx :
          LET s == prompt.energy[i].second
          IN  /\ j + 1 \in FrameIdx
              /\ Dist(j, s) = Dist(j + 1, s)
              /\ \A k \in FrameIdx : Dist(j, s) <= Dist(k, s)
              /\ At(features.rms, j) # At(features.rms, j + 1)

\* C3: every peak found is a valid index of rms_times and so is listed, at the
\* time of its frame; it is an inner frame not lower than its two neighbours,
\* and its value is at least mean(rms) * 1.2.
C3_PeaksAreFramesLocalMaximaAboveThreshold ==
    Generated =>
        /\ Len(prompt.peaks) = Len(peaks)
        /\ \A k \in 1..Len(peaks) :
              LET p == peaks[k]
              IN  /\ p >= 0 /\ p < Len(features.rms_times)
                  /\ p >= 1 /\ p + 1 < Len(features.rms)
                  /\ At(features.rms, p) >= At(features.rms, p - 1)
                  /\ At(features.rms, p) >= At(features.rms, p + 1)
                  /\ ThresholdDen * Len(features.rms) * At(features.rms, p)
                        >= ThresholdNum * Sum(features.rms)
                  /\ prompt.peaks[k].at =
                        Fmt2(At(features.rms_times, p), features.sr)

\* C3 witness: a report with two peaks, next to an inner local maximum that
\* stays below the threshold.
C3_PeaksReported ==
    /\ Generated
    /\ Len(peaks) >= 2
    /\ \E p \in FrameIdx :
          /\ p >= 1 /\ p + 1 < Len(features.rms)
          /\ At(features.rms, p) > At(features.rms, p - 1)
          /\ At(features.rms, p) > At(features.rms, p + 1)
          /\ ~ReachesHeight(features.rms, p)

\* the local maxima of the RMS series that reach the threshold
Candidates == SelectByHeight(features.rms, LocalMaxima(features.rms))

InSeq(s, v) == \E i \in 1..Len(s) : s[i] = v

\* two frames p < q that are 0.1 s or more apart
TenthApart(p, q) == DistanceDivisor * (q - p) * HopLength >= features.sr

\* C4: the peaks listed are pairwise 0.1 s or more apart, and two local maxima
\* that reach the threshold and are 0.1 s or more apart are both listed.
C4_MaximaTenthSecondApartBothReported ==
    Generated =>
        /\ \A a, b \in 1..Len(peaks) : a < b => TenthApart(peaks[a], peaks[b])
        /\ \A a, b \in 1..Len(Candidates) :
              (a < b /\ TenthApart(Candidates[a], Candidates[b]))
                  => InSeq(peaks, Candidates[a]) /\ InSeq(peaks, Candidates[b])

\* C5: segmentation never fails on a valid buffer, and segment_times is
\* strictly increasing, within (0, duration), with exactly
\* min(K - 1, frame_count - 1) entries.
C5_SegmentBoundariesInsideAndCounted ==
    /\ (ran # <<>> /\ ran[Len(ran)] = "agglomerative" /\ ~InvalidInput)
          => pc # "except"
    /\ Analyzed =>
          /\ StrictlyIncreasing(features.segment_times)
          /\ \A i \in 1..Len(features.segment_times) :
                /\ features.segment_times[i] > 0
                /\ features.segment_times[i] < features.duration
          /\ Len(features.segment_times)
                = Min(SegmentCount - 1, Len(features.rms) - 1)

\* C6: beat_times is strictly increasing and within [0, duration), and the
\* tempo is derived once per analysis: the tempo reported and the beats come
\* from one run of the beat tracker.
C6_BeatsOrderedTempoDerivedOnce ==
    Analyzed =>
        /\ StrictlyIncreasing(features.beat_times)
        /\ \A i \in 1..Len(features.beat_times) :
              /\ features.beat_times[i] >= 0
              /\ features.beat_times[i] < features.duration
        /\ Count(ran, "beat_track") = 1

C8_InvalidInputRunsNoComponent ==
    (pc # "load" /\ InvalidInput) => ran = <<>>

\* C9: the number of sections stated is the number n of entries of
\* segment_times; the markers are n lines, the first "Start: 0.0" whatever
\* segment_times[0] is, then the n - 1 section changes in the order of
\* segment_times.
C9_MarkersOnePerSegmentFirstIsStart ==
    Generated =>
        LET st == features.segment_times
            n == Len(st)
        IN  /\ prompt.sections = n
            /\ Len(prompt.markers) = n
            /\ n >= 1 => prompt.markers[1] = [kind |-> "Start", at |-> 0]
            /\ \A i \in 2..n :
                  prompt.markers[i] = [kind |-> "Section change at",
                                       at |-> Fmt2(st[i], features.sr)]
            /\ Cardinality({i \in 1..n :
                               prompt.markers[i].kind = "Section change at"})
                  = IF n = 0 THEN 0 ELSE n - 1

\* C9 witness: a report for segment_times of several entries, the first of
\* which is not 0.
C9_FirstEntryNotZero ==
    /\ Generated
    /\ Len(features.segment_times) >= 2
    /\ features.segment_times[1] # 0

\* the steps of a run that raises nothing
ExpectedSteps ==
    <<"analyze_song", "generate_timing_prompt", "print">>
    \o (IF args.save THEN <<"save_prompt_to_file">> ELSE <<>>)
    \o (IF args.visualize THEN <<"visualize_song">> ELSE <<>>)

LastRaised == steps # <<>> /\ steps[Len(steps)].outcome = "raised"

====
